---- MODULE Spec2Model ----
(***************************************************************************)
(* A model of carrier_owl.py: keyword scoring (calc_score), the date       *)
(* window (get_date_range), the DeepL poll loop (get_translated_text) and  *)
(* one run of main from search_keyword to the last notification.           *)
(*                                                                         *)
(* Strings are sequences of one-character strings.  Weights and scores are *)
(* integers (the code's floats, restricted to values floats add exactly).  *)
(***************************************************************************)
EXTENDS Integers, Sequences, FiniteSets, TLC

VARIABLES
    \* calc_score, called alone
    abst, kwds, score_out, score_pc,
    \* get_date_range
    today, date_out, date_pc,
    \* get_translated_text against a fake backend
    ready_at, out_text, elem_present, poll_pc, poll_i, reads, to_text,
    \* one run of main, from search_keyword on
    articles, keywords, max_posts, score_threshold,
    pc, raw, map_i, title_trans, result, driver, events, notify_i, cause

scoreVars == <<abst, kwds, score_out, score_pc>>
dateVars == <<today, date_out, date_pc>>
pollVars == <<ready_at, out_text, elem_present, poll_pc, poll_i, reads, to_text>>
runInputs == <<articles, keywords, max_posts, score_threshold>>
runVars == <<runInputs, pc, raw, map_i, title_trans, result, driver, events, notify_i, cause>>
vars == <<scoreVars, dateVars, pollVars, runVars>>

(***************************************************************************)
(* Bounds and input pools                                                  *)
(***************************************************************************)
MaxTextLen == 2
MaxKeywords == 2

Alphabet == {"a", "A", "-", " "}
Weights == {-1, 0, 1}

\* Keywords a configuration may hold (original, non-normalized form).
KeywordPool == {<<"a">>, <<"A">>, <<"-">>, <<"a", "-">>, <<"A", " ">>}

RECURSIVE StringsUpTo(_)
StringsUpTo(n) ==
    IF n = 0 THEN {<<>>}
    ELSE LET shorter == StringsUpTo(n - 1)
         IN  shorter \cup {Append(s, c) : s \in {t \in shorter : Len(t) = n - 1}, c \in Alphabet}

\* A dict in insertion order: distinct keys, each with its weight.
RECURSIVE DictsUpTo(_)
DictsUpTo(n) ==
    IF n = 0 THEN {<<>>}
    ELSE LET shorter == DictsUpTo(n - 1)
         IN  shorter \cup
             {Append(d, [word |-> w, weight |-> x]) :
                d \in {e \in shorter : Len(e) = n - 1},
                w \in KeywordPool, x \in Weights}

DistinctKeys(d) == \A x, y \in 1..Len(d) : d[x].word = d[y].word => x = y

Dicts == {d \in DictsUpTo(MaxKeywords) : DistinctKeys(d)}

(***************************************************************************)
(* str.lower, str.replace("-", " ") and the `in` test on strings           *)
(***************************************************************************)
lower(s) == [x \in 1..Len(s) |-> IF s[x] = "A" THEN "a" ELSE s[x]]

replace_hyphen(s) == [x \in 1..Len(s) |-> IF s[x] = "-" THEN " " ELSE s[x]]

\* `sub in s`: the empty string is in every string.
contains(sub, s) ==
    \E off \in 0..(Len(s) - Len(sub)) :
        \A j \in 1..Len(sub) : s[off + j] = sub[j]

(***************************************************************************)
(* calc_score                                                              *)
(***************************************************************************)
\* A loop body that adds the weight whether or not the keyword is in the text.
calc_score_step_always_adds(abst_l, word, score, acc) ==
    IF contains(replace_hyphen(lower(word)), abst_l)
    THEN [sum_score |-> acc.sum_score + score,
          hit_kwd_list |-> Append(acc.hit_kwd_list, word)]
    ELSE [sum_score |-> acc.sum_score + score,
          hit_kwd_list |-> acc.hit_kwd_list]

\* A loop body that records the normalized keyword instead of the original.
calc_score_step_normalized_word(abst_l, word, score, acc) ==
    IF contains(replace_hyphen(lower(word)), abst_l)
    THEN [sum_score |-> acc.sum_score + score,
          hit_kwd_list |-> Append(acc.hit_kwd_list, replace_hyphen(lower(word)))]
    ELSE acc

\* One pass of the loop body for keyword `word` of weight `score`.
calc_score_step(abst_l, word, score, acc) ==
    IF contains(replace_hyphen(lower(word)), abst_l)
    THEN [sum_score |-> acc.sum_score + score,
          hit_kwd_list |-> Append(acc.hit_kwd_list, word)]
    ELSE acc

\* `for word in keywords.keys()`, from the idx-th key on.
RECURSIVE calc_score_loop(_, _, _, _)
calc_score_loop(abst_l, kw, idx, acc) ==
    IF idx > Len(kw) THEN acc
    ELSE calc_score_loop(abst_l, kw, idx + 1,
            calc_score_step(abst_l, kw[idx].word, kw[idx].weight, acc))

calc_score(text, kw) ==
    calc_score_loop(replace_hyphen(lower(text)), kw, 1,
                    [sum_score |-> 0, hit_kwd_list |-> <<>>])

(***************************************************************************)
(* get_date_range.  A date is its proleptic Gregorian ordinal; weekday()   *)
(* is 0 on Monday.                                                         *)
(***************************************************************************)
FirstDay == 730120
DaySpan == 69

weekday(d) == (d + 6) % 7

\* The Tuesday branch taken for Monday too.
get_date_range_tuesday_rule(d) ==
    IF weekday(d) = 0 \/ weekday(d) = 1
    THEN [date_from |-> d - 4, date_to |-> d - 2]
    ELSE [date_from |-> d - 2, date_to |-> d - 2]

get_date_range(d) ==
    IF weekday(d) = 0
    THEN [date_from |-> d - 4, date_to |-> d - 4]
    ELSE IF weekday(d) = 1
    THEN [date_from |-> d - 4, date_to |-> d - 2]
    ELSE [date_from |-> d - 2, date_to |-> d - 2]

(***************************************************************************)
(* get_translated_text: the poll loop                                      *)
(***************************************************************************)
PollRange == 30

\* What the n-th read of the output region gives: empty until read ready_at
\* (0: never ready), out_text from then on.
read_output(m) == IF ready_at # 0 /\ m >= ready_at THEN out_text ELSE ""

\* A loop that never leaves early.
poll_break_never(text) == FALSE

\* `if to_text: break`
poll_break(text) == text # ""

(***************************************************************************)
(* search_keyword: scoring, filtering, sorting and truncating              *)
(***************************************************************************)
\* convert (the outer one): an article with its matched keywords and score.
convert(article, kw) ==
    LET r == calc_score(article.summary, kw)
    IN  [article |-> article, words |-> r.hit_kwd_list, score |-> r.sum_score]

\* A filter that tests the threshold alone.
keep_threshold_only(x, threshold) == x.score >= threshold

\* The filter's lambda.
keep(x, threshold) == x.score # 0 /\ x.score >= threshold

\* Ascending stable sort read backwards: x goes before its equals.
insert_before_equals(acc, x) ==
    LET p == Cardinality({y \in 1..Len(acc) : acc[y].score > x.score})
    IN  SubSeq(acc, 1, p) \o <<x>> \o SubSeq(acc, p + 1, Len(acc))

\* Where sorted(key=score, reverse=True) puts x among the elements that came
\* before it: after every element whose score is not lower.
insert_after_equals(acc, x) ==
    LET p == Cardinality({y \in 1..Len(acc) : acc[y].score >= x.score})
    IN  SubSeq(acc, 1, p) \o <<x>> \o SubSeq(acc, p + 1, Len(acc))

RECURSIVE sorted_loop(_, _, _)
sorted_loop(seq, idx, acc) ==
    IF idx > Len(seq) THEN acc
    ELSE sorted_loop(seq, idx + 1, insert_after_equals(acc, seq[idx]))

sorted_reverse(seq) == sorted_loop(seq, 1, <<>>)

\* seq[:m] of Python: a negative m counts from the end.
slice_to(seq, m) ==
    IF m >= 0
    THEN SubSeq(seq, 1, IF m < Len(seq) THEN m ELSE Len(seq))
    ELSE SubSeq(seq, 1, IF Len(seq) + m > 0 THEN Len(seq) + m ELSE 0)

\* raw, as search_keyword computes it from the articles.
rank(arts, kw, threshold) ==
    LET converted == [x \in 1..Len(arts) |-> convert(arts[x], kw)]
        Test(x) == keep(x, threshold)
    IN  sorted_reverse(SelectSeq(converted, Test))

(***************************************************************************)
(* Inputs of a run                                                         *)
(***************************************************************************)
MaxArticles == 2

\* Summaries an article may have and the keyword mappings a configuration may
\* hold: between them scores of 0 without a hit, 2, -2, 0 with hits, and 1.
Summaries == {<<>>, <<"A">>, <<" ">>, <<"a", "-">>, <<"a", " ", "a">>}

KeywordConfigs ==
    {<<[word |-> <<"a">>, weight |-> 2],
       [word |-> <<"-">>, weight |-> -2],
       [word |-> <<"A", "-", "a">>, weight |-> 1]>>}

Thresholds == {-2, 0, 1}

MaxPostsPool == (-2)..3

ArticleLists ==
    UNION {[1..len -> Summaries] : len \in 0..MaxArticles}

\* What one get_translated_text call comes to: an error of the browser or the
\* network, an empty string after 30 empty reads, or the translation.
TranslateOutcomes == {"raise", "", "en"}

Event(ev, id, field) == [ev |-> ev, id |-> id, field |-> field, driver |-> driver]

\* raw[:max_posts], the articles search_keyword translates.
Selected == slice_to(raw, max_posts)

(***************************************************************************)
(* Idle values of the parts a specification leaves out                     *)
(***************************************************************************)
NoScore == [sum_score |-> 0, hit_kwd_list |-> <<>>]

ScoreIdle ==
    /\ abst = <<>>
    /\ kwds = <<>>
    /\ score_out = NoScore
    /\ score_pc = "idle"

DateIdle ==
    /\ today = 0
    /\ date_out = [date_from |-> 0, date_to |-> 0]
    /\ date_pc = "idle"

PollIdle ==
    /\ ready_at = 0
    /\ out_text = ""
    /\ elem_present = TRUE
    /\ poll_pc = "idle"
    /\ poll_i = 0
    /\ reads = 0
    /\ to_text = ""

RunIdle ==
    /\ articles = <<>>
    /\ keywords = <<>>
    /\ max_posts = 0
    /\ score_threshold = 0
    /\ pc = "idle"
    /\ raw = <<>>
    /\ map_i = 1
    /\ title_trans = ""
    /\ result = <<>>
    /\ driver = "none"
    /\ events = <<>>
    /\ notify_i = 1
    /\ cause = "none"

(***************************************************************************)
(* Specification of calc_score called on any text and keyword mapping      *)
(***************************************************************************)
InitScore ==
    /\ abst \in StringsUpTo(MaxTextLen)
    /\ kwds \in Dicts
    /\ score_out = NoScore
    /\ score_pc = "call"
    /\ DateIdle /\ PollIdle /\ RunIdle

CalcScore ==
    /\ score_pc = "call"
    /\ score_out' = calc_score(abst, kwds)
    /\ score_pc' = "returned"
    /\ UNCHANGED <<abst, kwds, dateVars, pollVars, runVars>>

NextScore == CalcScore

SpecScore == InitScore /\ [][NextScore]_vars

(***************************************************************************)
(* Specification of get_date_range on any run date                         *)
(***************************************************************************)
InitDate ==
    /\ today \in FirstDay..(FirstDay + DaySpan)
    /\ date_out = [date_from |-> 0, date_to |-> 0]
    /\ date_pc = "call"
    /\ ScoreIdle /\ PollIdle /\ RunIdle

GetDateRange ==
    /\ date_pc = "call"
    /\ date_out' = get_date_range(today)
    /\ date_pc' = "returned"
    /\ UNCHANGED <<today, scoreVars, pollVars, runVars>>

NextDate == GetDateRange

SpecDate == InitDate /\ [][NextDate]_vars

(***************************************************************************)
(* Specification of one get_translated_text call against a backend whose   *)
(* output region turns non-empty on read ready_at                          *)
(***************************************************************************)
InitPoll ==
    /\ ready_at \in 0..(PollRange + 1)
    /\ out_text \in {"en", "EN"}
    /\ elem_present \in BOOLEAN
    /\ poll_pc = "get"
    /\ poll_i = 0
    /\ reads = 0
    /\ to_text = ""
    /\ ScoreIdle /\ DateIdle /\ RunIdle

\* driver.get(url); driver.implicitly_wait(10)
Navigate ==
    /\ poll_pc = "get"
    /\ \/ poll_pc' = "loop"
       \/ poll_pc' = "raised"
    /\ UNCHANGED <<ready_at, out_text, elem_present, poll_i, reads, to_text>>
    /\ UNCHANGED <<scoreVars, dateVars, runVars>>

\* One pass of `for i in range(30)`: sleep, read the region, leave if it has text.
\* find_element raises when the page has no such element.
PollOnce ==
    /\ poll_pc = "loop"
    /\ poll_i < PollRange
    /\ poll_i' = poll_i + 1
    /\ IF elem_present
       THEN /\ reads' = reads + 1
            /\ to_text' = read_output(reads + 1)
            /\ poll_pc' = IF poll_break(to_text') THEN "returned" ELSE "loop"
       ELSE /\ poll_pc' = "raised"
            /\ UNCHANGED <<reads, to_text>>
    /\ UNCHANGED <<ready_at, out_text, elem_present>>
    /\ UNCHANGED <<scoreVars, dateVars, runVars>>

\* The range is used up: return to_text.
PollExhausted ==
    /\ poll_pc = "loop"
    /\ poll_i = PollRange
    /\ poll_pc' = "returned"
    /\ UNCHANGED <<ready_at, out_text, elem_present, poll_i, reads, to_text>>
    /\ UNCHANGED <<scoreVars, dateVars, runVars>>

NextPoll == Navigate \/ PollOnce \/ PollExhausted

SpecPoll == InitPoll /\ [][NextPoll]_vars

(***************************************************************************)
(* Specification of one run: search_keyword, then the front matter and     *)
(* notify                                                                  *)
(***************************************************************************)
Init ==
    /\ \E summaries \in ArticleLists :
         articles = [x \in 1..Len(summaries) |-> [id |-> x, summary |-> summaries[x]]]
    /\ keywords \in KeywordConfigs
    /\ max_posts \in MaxPostsPool
    /\ score_threshold \in Thresholds
    /\ pc = "search_keyword"
    /\ raw = <<>>
    /\ map_i = 1
    /\ title_trans = ""
    /\ result = <<>>
    /\ driver = "none"
    /\ events = <<>>
    /\ notify_i = 1
    /\ cause = "none"
    /\ ScoreIdle /\ DateIdle /\ PollIdle

\* search_keyword up to `raw = sorted(...)`.
Rank ==
    /\ pc = "search_keyword"
    /\ raw' = rank(articles, keywords, score_threshold)
    /\ pc' = "open_driver"
    /\ UNCHANGED <<runInputs, map_i, title_trans, result, driver, events, notify_i, cause>>
    /\ UNCHANGED <<scoreVars, dateVars, pollVars>>

\* webdriver.Firefox(executable_path=GeckoDriverManager().install(), ...)
OpenDriver ==
    /\ pc = "open_driver"
    /\ \/ /\ driver' = "open"
          /\ events' = Append(events, Event("open", 0, ""))
          /\ pc' = "title"
          /\ cause' = cause
       \/ /\ pc' = "aborted"
          /\ cause' = "transport"
          /\ UNCHANGED <<driver, events>>
    /\ UNCHANGED <<runInputs, raw, map_i, title_trans, result, notify_i>>
    /\ UNCHANGED <<scoreVars, dateVars, pollVars>>

\* raw2result, first half: the title's translation.
TranslateTitle ==
    /\ pc = "title"
    /\ map_i <= Len(Selected)
    /\ events' = Append(events, Event("translate", Selected[map_i].article.id, "title"))
    /\ \E o \in TranslateOutcomes :
         IF o = "raise"
         THEN /\ pc' = "aborted"
              /\ cause' = "transport"
              /\ UNCHANGED title_trans
         ELSE /\ title_trans' = o
              /\ pc' = "summary"
              /\ cause' = cause
    /\ UNCHANGED <<runInputs, raw, map_i, result, driver, notify_i>>
    /\ UNCHANGED <<scoreVars, dateVars, pollVars>>

\* raw2result, second half: the summary's translation and the Result.
TranslateSummary ==
    /\ pc = "summary"
    /\ events' = Append(events, Event("translate", Selected[map_i].article.id, "summary"))
    /\ \E o \in TranslateOutcomes :
         IF o = "raise"
         THEN /\ pc' = "aborted"
              /\ cause' = "transport"
              /\ UNCHANGED <<result, map_i>>
         ELSE /\ result' = Append(result,
                    [article |-> Selected[map_i].article,
                     title_trans |-> title_trans,
                     summary_trans |-> o,
                     words |-> Selected[map_i].words,
                     score |-> Selected[map_i].score])
              /\ map_i' = map_i + 1
              /\ pc' = "title"
              /\ cause' = cause
    /\ UNCHANGED <<runInputs, raw, title_trans, driver, notify_i>>
    /\ UNCHANGED <<scoreVars, dateVars, pollVars>>

\* A return that leaves the browser running.
QuitDriver_no_quit ==
    /\ pc = "title"
    /\ map_i > Len(Selected)
    /\ pc' = "front_matter"
    /\ UNCHANGED <<runInputs, raw, map_i, title_trans, result, driver, events, notify_i, cause>>
    /\ UNCHANGED <<scoreVars, dateVars, pollVars>>

\* The map is used up: driver.quit() and return result.
QuitDriver ==
    /\ pc = "title"
    /\ map_i > Len(Selected)
    /\ driver' = "closed"
    /\ events' = Append(events, Event("quit", 0, ""))
    /\ pc' = "front_matter"
    /\ UNCHANGED <<runInputs, raw, map_i, title_trans, result, notify_i, cause>>
    /\ UNCHANGED <<scoreVars, dateVars, pollVars>>

\* main after search_keyword: the front matter is rendered (substitute raises on
\* a placeholder it has no value for) and, unless empty, sent (the sink's client
\* may raise).
FrontMatter ==
    /\ pc = "front_matter"
    /\ \/ /\ pc' = "aborted"
          /\ cause' = "render"
          /\ UNCHANGED events
       \/ /\ pc' = "notify"
          /\ UNCHANGED <<events, cause>>
       \/ /\ events' = Append(events, Event("send", 0, "front_matter"))
          /\ pc' = "notify"
          /\ cause' = cause
       \/ /\ pc' = "aborted"
          /\ cause' = "dispatch"
          /\ UNCHANGED events
    /\ UNCHANGED <<runInputs, raw, map_i, title_trans, result, driver, notify_i>>
    /\ UNCHANGED <<scoreVars, dateVars, pollVars>>

\* A loop body that goes on to the next result when the template cannot be rendered.
NotifyOne_skip_on_error ==
    /\ pc = "notify"
    /\ notify_i <= Len(result)
    /\ \/ /\ notify_i' = notify_i + 1
          /\ UNCHANGED <<events, pc, cause>>
       \/ /\ events' = Append(events, Event("send", result[notify_i].article.id, "message"))
          /\ notify_i' = notify_i + 1
          /\ UNCHANGED <<pc, cause>>
    /\ UNCHANGED <<runInputs, raw, map_i, title_trans, result, driver>>
    /\ UNCHANGED <<scoreVars, dateVars, pollVars>>

\* One pass of notify's loop: render the result's message, then send2app.
NotifyOne ==
    /\ pc = "notify"
    /\ notify_i <= Len(result)
    /\ \/ /\ pc' = "aborted"
          /\ cause' = "render"
          /\ UNCHANGED <<events, notify_i>>
       \/ /\ events' = Append(events, Event("send", result[notify_i].article.id, "message"))
          /\ notify_i' = notify_i + 1
          /\ UNCHANGED <<pc, cause>>
       \/ /\ pc' = "aborted"
          /\ cause' = "dispatch"
          /\ UNCHANGED <<events, notify_i>>
    /\ UNCHANGED <<runInputs, raw, map_i, title_trans, result, driver>>
    /\ UNCHANGED <<scoreVars, dateVars, pollVars>>

\* notify's loop is used up: main returns.
NotifyDone ==
    /\ pc = "notify"
    /\ notify_i > Len(result)
    /\ pc' = "done"
    /\ UNCHANGED <<runInputs, raw, map_i, title_trans, result, driver, events, notify_i, cause>>
    /\ UNCHANGED <<scoreVars, dateVars, pollVars>>

Next ==
    \/ Rank
    \/ OpenDriver
    \/ TranslateTitle
    \/ TranslateSummary
    \/ QuitDriver
    \/ FrontMatter
    \/ NotifyOne
    \/ NotifyDone

Spec == Init /\ [][Next]_vars

(***************************************************************************)
(* Claims about calc_score                                                 *)
(***************************************************************************)
NormChar(c) == CASE c = "A" -> "a" [] c = "-" -> " " [] OTHER -> c

Normalized(s) == [x \in 1..Len(s) |-> NormChar(s[x])]

IsSubstring(sub, s) ==
    \E x \in 1..(Len(s) + 1) : \E y \in (x - 1)..Len(s) : SubSeq(s, x, y) = sub

\* Positions of the keywords whose normalized form is in the normalized text.
MatchedAt(text, kw) ==
    {x \in 1..Len(kw) : IsSubstring(Normalized(kw[x].word), Normalized(text))}

RECURSIVE WeightSum(_, _)
WeightSum(kw, S) ==
    IF S = {} THEN 0
    ELSE LET x == CHOOSE m \in S : TRUE
         IN  kw[x].weight + WeightSum(kw, S \ {x})

\* C5: calc_score returns the sum of the weights of exactly the keywords whose
\* normalized form is a substring of the normalized text, and the matched list
\* holds exactly those keywords, in original form, in the mapping's order; two
\* keywords that normalize identically are both counted.
C5_ScoreIsSumOfMatched ==
    score_pc = "returned" =>
        LET M == MatchedAt(abst, kwds)
            hit == score_out.hit_kwd_list
        IN  /\ score_out.sum_score = WeightSum(kwds, M)
            /\ Len(hit) = Cardinality(M)
            /\ \A x \in M :
                 hit[Cardinality({m \in M : m <= x})] = kwds[x].word

\* Two distinct keywords with the same normalized form both matched.
C5_Witness ==
    /\ score_pc = "returned"
    /\ Len(score_out.hit_kwd_list) = 2
    /\ score_out.hit_kwd_list[1] # score_out.hit_kwd_list[2]
    /\ Normalized(score_out.hit_kwd_list[1]) = Normalized(score_out.hit_kwd_list[2])
    /\ score_out.sum_score = 2

\* C6 as stated: the score is 0 if and only if the matched list is empty.
C6_ZeroIffNoMatch ==
    score_pc = "returned" =>
        (score_out.sum_score = 0 <=> score_out.hit_kwd_list = <<>>)

\* C6 amended: an empty matched list gives score 0, and when every matched
\* keyword has a positive weight a non-empty matched list gives a positive score.
C6_NoMatchGivesZero ==
    score_pc = "returned" =>
        /\ score_out.hit_kwd_list = <<>> => score_out.sum_score = 0
        /\ (/\ score_out.hit_kwd_list # <<>>
            /\ \A x \in MatchedAt(abst, kwds) : kwds[x].weight > 0)
           => score_out.sum_score > 0

\* A text that matches nothing of a non-empty mapping scores 0.
C6_Witness ==
    /\ score_pc = "returned"
    /\ Len(kwds) = 2
    /\ kwds[1].weight # 0
    /\ score_out.hit_kwd_list = <<>>
    /\ score_out.sum_score = 0

(***************************************************************************)
(* Claims about get_date_range                                             *)
(***************************************************************************)
\* The latest day before d that falls on weekday w.
Preceding(w, d) == CHOOSE e \in (d - 7)..(d - 1) : weekday(e) = w

\* C10: on a Monday the window is the preceding Thursday alone, on a Tuesday it
\* runs from the preceding Friday to the preceding Sunday, on any other day it
\* is the day two days before the run date; date_from <= date_to always.
C10_DateWindow ==
    date_pc = "returned" =>
        /\ weekday(today) = 0 =>
             /\ date_out.date_from = Preceding(3, today)
             /\ date_out.date_to = date_out.date_from
        /\ weekday(today) = 1 =>
             /\ date_out.date_from = Preceding(4, today)
             /\ date_out.date_to = Preceding(6, today)
        /\ weekday(today) \notin {0, 1} =>
             /\ date_out.date_from = today - 2
             /\ date_out.date_to = today - 2
        /\ date_out.date_from <= date_out.date_to

\* A Monday run has returned its window.
C10_Witness ==
    /\ date_pc = "returned"
    /\ weekday(today) = 0
    /\ date_out.date_to = today - 4

(***************************************************************************)
(* Claims about get_translated_text                                        *)
(***************************************************************************)
\* C3: against a backend whose output first is non-empty on read k, 1 <= k <= 30,
\* the call returns that output after exactly k polls and k reads; against one
\* that is empty on all 30 reads it returns the empty string after exactly 30
\* polls, and it does not raise.
C3_PollCount ==
    /\ poll_pc = "returned" =>
         IF ready_at \in 1..PollRange
         THEN to_text = out_text /\ poll_i = ready_at /\ reads = ready_at
         ELSE to_text = "" /\ poll_i = PollRange /\ reads = PollRange
    /\ (poll_pc = "raised" /\ elem_present) => poll_i = 0

\* The output turned up on the last of the 30 reads and was returned.
C3_Witness ==
    /\ poll_pc = "returned"
    /\ ready_at = PollRange
    /\ poll_i = PollRange
    /\ to_text = out_text

(***************************************************************************)
(* Claims about a run                                                      *)
(***************************************************************************)
IsPrefix(a, b) == Len(a) <= Len(b) /\ \A x \in 1..Len(a) : a[x] = b[x]

IsSend(e) == e.ev = "send"

IsMessage(e) == e.ev = "send" /\ e.field = "message"

IsSessionEvent(e) == e.ev # "send"

Ids(seq) == [x \in 1..Len(seq) |-> seq[x].article.id]

\* The articles whose messages were dispatched, in the order of dispatch.
DispatchedIds == LET m == SelectSeq(events, IsMessage) IN [x \in 1..Len(m) |-> m[x].id]

Terminal == pc \in {"done", "aborted"}

\* search_keyword has returned its result.
Returned == pc \in {"front_matter", "notify", "done"} \/ cause \in {"render", "dispatch"}

ScoreOf(id) == calc_score(articles[id].summary, keywords).sum_score

\* C1 as stated: max_posts = -1 returns every surviving article, 0 returns none,
\* N > 0 returns the N highest-scored survivors (all of them when there are fewer).
C1_LimitAsStated ==
    Returned =>
        /\ max_posts = -1 => Ids(result) = Ids(raw)
        /\ max_posts = 0 => Ids(result) = <<>>
        /\ max_posts > 0 =>
             Ids(result) = Ids(SubSeq(raw, 1, IF max_posts < Len(raw) THEN max_posts ELSE Len(raw)))

\* C2 as stated: no run ends with the browser session still open.
C2_SessionClosedAtEnd == Terminal => driver # "open"

\* C4: no article whose score is 0 or below the threshold is translated or returned.
C4_NoLowScoreRetained ==
    /\ \A x \in 1..Len(events) :
         events[x].ev = "translate" =>
             ScoreOf(events[x].id) # 0 /\ ScoreOf(events[x].id) >= score_threshold
    /\ \A x \in 1..Len(result) :
         /\ result[x].score = ScoreOf(result[x].article.id)
         /\ result[x].score # 0
         /\ result[x].score >= score_threshold

\* Under a threshold below 0 an article with hits that sum to 0 was left out and
\* another article was returned.
C4_Witness ==
    /\ pc = "done"
    /\ score_threshold < 0
    /\ Len(result) >= 1
    /\ \E x \in 1..Len(articles) :
         /\ ScoreOf(x) = 0
         /\ calc_score(articles[x].summary, keywords).hit_kwd_list # <<>>

\* C7: the returned articles are in descending order of score, and articles of
\* equal score are in the order of the input list.
C7_SortedStable ==
    \A x, y \in 1..Len(result) :
        x < y =>
            \/ result[x].score > result[y].score
            \/ /\ result[x].score = result[y].score
               /\ result[x].article.id < result[y].article.id

\* Two articles of equal score were returned.
C7_Witness ==
    /\ pc = "done"
    /\ Len(result) >= 2
    /\ result[1].score = result[2].score

\* C8 as stated: a run ends with a message dispatched for every selected article
\* or, aborted, with none dispatched; no run ends having dispatched the messages
\* of only some of the selected articles.
C8_NoPartialDispatch ==
    Terminal =>
        \/ DispatchedIds = Ids(Selected)
        \/ pc = "aborted" /\ DispatchedIds = <<>>

\* C8 amended: a run ends in one of three ways: done, with a message dispatched
\* for every selected article in rank order; aborted on a browser or translation
\* error, with nothing dispatched; or aborted on a rendering or dispatch error
\* after every selected article was translated, with the articles' messages
\* dispatched so far being those of a leading part of the selection, in rank order.
C8_RunEndings ==
    Terminal =>
        \/ /\ pc = "done"
           /\ cause = "none"
           /\ Ids(result) = Ids(Selected)
           /\ DispatchedIds = Ids(Selected)
        \/ /\ pc = "aborted"
           /\ cause = "transport"
           /\ SelectSeq(events, IsSend) = <<>>
        \/ /\ pc = "aborted"
           /\ cause \in {"render", "dispatch"}
           /\ Ids(result) = Ids(Selected)
           /\ IsPrefix(DispatchedIds, Ids(Selected))
           /\ Len(DispatchedIds) < Len(Selected) \/ Len(Selected) = 0

\* A run aborted on a rendering error after dispatching the first article's
\* message and before the second's.
C8_Witness ==
    /\ pc = "aborted"
    /\ cause = "render"
    /\ Len(Selected) = 2
    /\ Len(DispatchedIds) = 1

\* The session's events of a run without error: the browser is opened, title
\* and summary of each selected article are translated in rank order with the
\* browser open, and the open browser is closed.
ExpectedSession ==
    <<[ev |-> "open", id |-> 0, field |-> "", driver |-> "none"]>>
    \o [x \in 1..(2 * Len(Selected)) |->
          [ev |-> "translate",
           id |-> Selected[(x + 1) \div 2].article.id,
           field |-> IF x % 2 = 1 THEN "title" ELSE "summary",
           driver |-> "open"]]
    \o <<[ev |-> "quit", id |-> 0, field |-> "", driver |-> "open"]>>

\* C9: without a transport error the session is opened once, every translate
\* call (title then summary, in rank order) runs on the open session, and the
\* session is closed once, after the last call and before anything is dispatched.
C9_SessionLifecycle ==
    cause # "transport" =>
        /\ IsPrefix(SelectSeq(events, IsSessionEvent), ExpectedSession)
        /\ \A x \in 1..Len(events) : IsSend(events[x]) => events[x].driver = "closed"
        /\ Returned => SelectSeq(events, IsSessionEvent) = ExpectedSession

\* A finished run in which one translation timed out, another succeeded and
\* messages were dispatched.
C9_Witness ==
    /\ pc = "done"
    /\ Len(result) = 2
    /\ result[1].title_trans = ""
    /\ result[1].summary_trans = "en"
    /\ Len(DispatchedIds) = 2

====
